---- MODULE Spec2Model ----
(***************************************************************************)
(* Local History (history.py): a snapshot store keyed by source path.      *)
(*                                                                         *)
(* Paths and file names are sequences of one-character strings, file       *)
(* contents are sequences of bytes, times are integer ticks of             *)
(* 1/TicksPerSec second.  The file system is a function from the existing  *)
(* directories to their entries (name -> [data, mtime]).                   *)
(***************************************************************************)
EXTENDS Integers, Sequences, FiniteSets, TLC

\* ------------------------------------------------------------------ bounds
MaxWorkers == 2      \* record threads alive at the same time
MaxEvents == 2       \* editor events (save, close, unlink) in one behaviour
MaxTick == 1         \* clock ticks before a day passes
MaxDays == 1         \* whole days the clock may advance
TicksPerSec == 2     \* clock ticks per second (mtime granules per name second)
COPY_BUFSIZE == 1    \* bytes moved by one read/write of shutil.copyfile
MaxCommandSaves == 1 \* saves made by history commands, on top of MaxEvents
MaxDepth == 2        \* directory components of a path given to the path mapping

\* ------------------------------------------------------- program constants
SECONDS_PER_DAY == 86400

\* a setting that is absent from the settings file
None == 0 - 1

\* --------------------------------------------------- Python string helpers
\* s[k:]
Drop(s, k) == IF k >= Len(s) THEN <<>> ELSE SubSeq(s, k + 1, Len(s))

\* s[:k]
Take(s, k) == IF k <= 0 THEN <<>> ELSE SubSeq(s, 1, IF k > Len(s) THEN Len(s) ELSE k)

\* s.find(c), 0-based, -1 when absent
Find(s, c) ==
    IF \E i \in 1..Len(s) : s[i] = c
    THEN (CHOOSE i \in 1..Len(s) : s[i] = c /\ \A j \in 1..(i - 1) : s[j] # c) - 1
    ELSE -1

\* s.find(c, start), 0-based, -1 when absent
FindFrom(s, c, start) ==
    IF \E i \in (start + 1)..Len(s) : s[i] = c
    THEN (CHOOSE i \in (start + 1)..Len(s) :
             s[i] = c /\ \A j \in (start + 1)..(i - 1) : s[j] # c) - 1
    ELSE -1

\* s.rfind(c), 0-based, -1 when absent
RFind(s, c) ==
    IF \E i \in 1..Len(s) : s[i] = c
    THEN (CHOOSE i \in 1..Len(s) : s[i] = c /\ \A j \in (i + 1)..Len(s) : s[j] # c) - 1
    ELSE -1

\* s.replace(c, "", 1)
RemoveFirst(s, c) ==
    LET k == Find(s, c) IN IF k = -1 THEN s ELSE Take(s, k) \o Drop(s, k + 1)

\* s.endswith(t)
EndsWith(s, t) == Len(t) <= Len(s) /\ Drop(s, Len(s) - Len(t)) = t

\* s.startswith(t)
StartsWith(s, t) == Len(t) <= Len(s) /\ Take(s, Len(t)) = t

\* s.rstrip(chars)
RStrip(s, chars) ==
    IF \E i \in 1..Len(s) : s[i] \notin chars
    THEN Take(s, CHOOSE i \in 1..Len(s) :
                    s[i] \notin chars /\ \A j \in (i + 1)..Len(s) : s[j] \in chars)
    ELSE <<>>

\* In the path functions below each argument is bound once, as x \in {arg},
\* so that a path is computed once however often the body reads it.

\* --------------------------------------------------------------- posixpath
\* posixpath.dirname
posix_dirname(path) ==
    CHOOSE r \in
        { IF head # <<>> /\ \E k \in 1..Len(head) : head[k] # "/"
          THEN RStrip(head, {"/"})
          ELSE head : head \in { Take(p, RFind(p, "/") + 1) : p \in {path} } } : TRUE

\* posixpath.basename
posix_basename(path) ==
    CHOOSE r \in { Drop(p, RFind(p, "/") + 1) : p \in {path} } : TRUE

\* posixpath.join(a, b)
posix_join(a, b) ==
    CHOOSE r \in
        { IF StartsWith(y, <<"/">>) THEN y
          ELSE IF x = <<>> \/ EndsWith(x, <<"/">>) THEN x \o y
          ELSE x \o <<"/">> \o y : x \in {a}, y \in {b} } : TRUE

\* ------------------------------------------------------------------ ntpath
NtSeps == {"\\", "/"}

\* p.replace("/", "\\")
NtNorm(p) == [i \in 1..Len(p) |-> IF p[i] = "/" THEN "\\" ELSE p[i]]

\* ntpath.splitdrive: <<drive, rest>>
nt_splitdrive(path) ==
    CHOOSE r \in
        { IF Len(p) >= 2 /\ Take(n, 2) = <<"\\", "\\">> /\ Take(Drop(n, 2), 1) # <<"\\">>
          THEN LET index == FindFrom(n, "\\", 2) IN
               IF index = -1 THEN << <<>>, p >>
               ELSE LET index2 == FindFrom(n, "\\", index + 1) IN
                    IF index2 = index + 1 THEN << <<>>, p >>
                    ELSE LET e == IF index2 = -1 THEN Len(p) ELSE index2
                         IN  << Take(p, e), Drop(p, e) >>
          ELSE IF Len(p) >= 2 /\ n[2] = ":" THEN << Take(p, 2), Drop(p, 2) >>
          ELSE << <<>>, p >> : p \in {path}, n \in {NtNorm(path)} } : TRUE

\* the index i of ntpath.split: the length of the part up to the last separator
NtHeadLen(p) ==
    IF \E i \in 1..Len(p) : p[i] \in NtSeps
    THEN CHOOSE i \in 1..Len(p) : p[i] \in NtSeps /\ \A j \in (i + 1)..Len(p) : p[j] \notin NtSeps
    ELSE 0

\* ntpath.dirname
nt_dirname(path) ==
    CHOOSE r \in
        { LET head == Take(sd[2], NtHeadLen(sd[2]))
              stripped == RStrip(head, NtSeps)
          IN  sd[1] \o (IF stripped # <<>> THEN stripped ELSE head)
          : sd \in {nt_splitdrive(path)} } : TRUE

\* ntpath.basename
nt_basename(path) ==
    CHOOSE r \in { Drop(sd[2], NtHeadLen(sd[2])) : sd \in {nt_splitdrive(path)} } : TRUE

\* ntpath.join(a, b) (drive letters compared without case folding: the model
\* uses capital drive letters only)
nt_join(a, b) ==
    CHOOSE r \in
        { LET absolute == ps[2] # <<>> /\ ps[2][1] \in NtSeps
              otherDrive == ~absolute /\ ps[1] # <<>> /\ ps[1] # rs[1]
              drive == IF absolute
                       THEN (IF ps[1] # <<>> \/ rs[1] = <<>> THEN ps[1] ELSE rs[1])
                       ELSE IF ps[1] # <<>> THEN ps[1] ELSE rs[1]
              rest == IF absolute \/ otherDrive THEN ps[2]
                      ELSE (IF rs[2] # <<>> /\ rs[2][Len(rs[2])] \notin NtSeps
                            THEN rs[2] \o <<"\\">> ELSE rs[2]) \o ps[2]
          IN  IF rest # <<>> /\ rest[1] \notin NtSeps
                 /\ drive # <<>> /\ drive[Len(drive)] # ":"
              THEN drive \o <<"\\">> \o rest
              ELSE drive \o rest
          : rs \in {nt_splitdrive(a)}, ps \in {nt_splitdrive(b)} } : TRUE

\* ------------------------------------------------------------------- state
VARIABLES
    system,                  \* platform.system()
    cwd,                     \* the process's current working directory
    FILE_SIZE_LIMIT,         \* settings, as load_settings leaves them
    FILE_HISTORY_RETENTION,
    HISTORY_ON_CLOSE,
    fs,                      \* directory -> (entry name -> [data, mtime])
    clock,                   \* time.time(), in ticks
    workers,                 \* the record threads: slot -> locals of process_history
    nev,                     \* editor events so far
    recs,                    \* per file: the contents seen by the record calls
                             \* completed one after another since the history
                             \* was empty, each run alone, none deleting
    view,                    \* file name of the view a browse command runs on
    browsed,                 \* directory last handed to the file manager
    panel,                   \* the quick panel a history command has put up
    shown                    \* what the last history command showed or did

vars == <<system, cwd, FILE_SIZE_LIMIT, FILE_HISTORY_RETENTION, HISTORY_ON_CLOSE,
          fs, clock, workers, nev, recs, view, browsed, panel, shown>>

\* ----------------------------------------------------------------- os.path
os_sep == IF system = "Windows" THEN "\\" ELSE "/"

os_path_dirname(p) == IF system = "Windows" THEN nt_dirname(p) ELSE posix_dirname(p)

os_path_basename(p) == IF system = "Windows" THEN nt_basename(p) ELSE posix_basename(p)

os_path_join(a, b) == IF system = "Windows" THEN nt_join(a, b) ELSE posix_join(a, b)

\* os.path.abspath(os.path.expanduser("~"))
Home == IF system = "Windows" THEN <<"C", ":", "\\", "u">> ELSE <<"/", "u">>

HISTORY_ROOT == os_path_join(os_path_join(Home, <<".", "s">>), <<"h">>)

\* the Windows branch of get_file_dir: strip the network prefix, then the
\* drive colon
WindowsStrip(file_dir) ==
    CHOOSE r \in
        { IF Find(unc, ":") = 1 THEN RemoveFirst(unc, ":") ELSE unc
          : unc \in { IF Find(d, os_sep) = 0 THEN Drop(d, 2) ELSE d : d \in {file_dir} } }
        : TRUE

get_file_dir(file_path) ==
    CHOOSE r \in
        { os_path_join(HISTORY_ROOT,
                       IF system = "Windows" THEN WindowsStrip(file_dir)
                       ELSE Drop(file_dir, 1))
          : file_dir \in {os_path_dirname(file_path)} } : TRUE

\* -------------------------------------------------------------- file system
EmptyDir == [n \in {} |-> 0]

Put(m, k, v) == [x \in (DOMAIN m) \cup {k} |-> IF x = k THEN v ELSE m[x]]

Del(m, k) == [x \in (DOMAIN m) \ {k} |-> m[x]]

\* os.path.exists(d) for a directory
exists(d) == d \in DOMAIN fs

\* the entries of directory d
listdir(d) == IF exists(d) THEN DOMAIN fs[d] ELSE {}

\* whether dir/name is a file
isfile(d, n) == exists(d) /\ n \in DOMAIN fs[d]

\* os.path.isfile of a full path
path_isfile(p) == isfile(os_path_dirname(p), os_path_basename(p))

\* the file at a full path
FileAt(p) == fs[os_path_dirname(p)][os_path_basename(p)]

\* os.makedirs(name): the leaf and every missing ancestor
RECURSIVE makedirs(_, _)
makedirs(d, name) ==
    CHOOSE r \in
        { Put(IF head # <<>> /\ head # name /\ head \notin DOMAIN d
              THEN makedirs(d, head) ELSE d,
              name, EmptyDir) : head \in {os_path_dirname(name)} } : TRUE

\* glob.glob("*" + file_name): the entries of the current directory whose
\* name ends with file_name; "*" matches no leading dot
glob(file_name) ==
    {n \in listdir(cwd) : EndsWith(n, file_name) /\ ~StartsWith(n, <<".">>)}

\* dt.now().strftime("%Y-%m-%d_%H.%M.%S"): the clock cut to whole seconds
strftime(t) == ToString(t \div TicksPerSec)

\* "{0}.{1}".format(timestamp, file_name)
SnapshotName(t, file_name) == <<strftime(t), ".">> \o file_name


\* ------------------------------------------------------------ source files
\* the files open in the editor: two in one directory, the base name of one
\* ending with the base name of the other, and one in another directory
F == <<"/", "d", "/", "a">>
G == <<"/", "d", "/", "b", "a">>
H == <<"/", "e", "/", "a">>

Files == {F, G, H}

\* file contents the editor writes
Data == {<<1>>, <<2>>, <<1, 2>>}

\* values of the settings file
SizeLimits == {1}
RetentionDays == {None, 0, 1}

\* directories the process may have been started in: the mirrored directory
\* of F and G, and the root
CwdChoices == {get_file_dir(F), <<"/">>}

\* ------------------------------------------------------------- load_settings
\* FILE_HISTORY_RETENTION after load_settings read `days` from the settings
load_retention(days) ==
    IF days # None /\ days # 0 THEN days * SECONDS_PER_DAY ELSE days

\* ------------------------------------------------------------------ workers
Slots == 1..MaxWorkers

\* the handle of a source file that is still linked under its path
Linked == <<0>>

Idle == [pc |-> "idle", file_path |-> <<>>, globbed |-> {}, history_files |-> <<>>,
         dst |-> <<>>, off |-> 0, live |-> TRUE, held |-> Linked, now |-> 0, i |-> 0,
         alone |-> FALSE, fresh |-> FALSE]

Running(w) == workers[w].pc \notin {"idle", "returned", "raised"}

\* the snapshots of source file f in its mirrored directory: the entries
\* named <timestamp>.<base name of f>
IsSnapshotOf(n, f) ==
    LET base == os_path_basename(f)
    IN  Len(n) = Len(base) + 2 /\ n[2] = "." /\ Drop(n, 2) = base

SnapshotsOf(f) == {n \in listdir(get_file_dir(f)) : IsSnapshotOf(n, f)}

\* Thread(target=self.process_history, args=(file_name,)).start(): the new
\* thread takes the first free slot.  alone: no other thread runs and no
\* editor event arrives while it runs; fresh: it continues recs (r is recs
\* after the event) or starts from an empty history
Spawn(f, r) ==
    LET slot == CHOOSE w \in Slots : ~Running(w) /\ \A v \in Slots : ~Running(v) => w <= v
    IN  [w \in Slots |->
            IF w = slot
            THEN [Idle EXCEPT !.pc = "getsize", !.file_path = f,
                              !.alone = \A v \in Slots : ~Running(v),
                              !.fresh = r[f] # <<>> \/ SnapshotsOf(f) = {}]
            ELSE [workers[w] EXCEPT !.alone = FALSE]]

\* an editor event that starts no thread
NoSpawn == [w \in Slots |-> [workers[w] EXCEPT !.alone = FALSE]]

\* the threads after the thread of slot w ended by return or by an exception
Ended(ws, w, outcome) == [ws EXCEPT ![w] = [Idle EXCEPT !.pc = outcome]]

\* recs after the thread of slot w ended; counted: it ended by return after
\* the size check
RecsAfter(w, outcome, counted) ==
    LET f == workers[w].file_path IN
    [recs EXCEPT ![f] =
        IF outcome = "returned" /\ counted /\ workers[w].alone /\ workers[w].fresh
        THEN Append(@, fs[os_path_dirname(f)][os_path_basename(f)].data)
        ELSE <<>>]

Finish(w, outcome, counted) ==
    /\ workers' = Ended(workers, w, outcome)
    /\ recs' = RecsAfter(w, outcome, counted)

Goto(w, pc) == workers' = [workers EXCEPT ![w].pc = pc]

\* ------------------------------------------------------------ quick panel
\* no quick panel is up
Closed == [cmd |-> "closed", file |-> <<>>, history_files |-> <<>>]

\* what a history command can leave behind: a status message, a diff view,
\* an opened file, a replaced buffer, or an exception
Shown(kind, msg, from_file, to_file, from_data, to_data) ==
    [kind |-> kind, msg |-> msg, from_file |-> from_file, to_file |-> to_file,
     from_data |-> from_data, to_data |-> to_data]

Nothing == Shown("none", "", <<>>, <<>>, <<>>, <<>>)

\* --------------------------------------------------------------------- Init
Base ==
    LET src == [data |-> <<1>>, mtime |-> 0] IN
    (<<"/">> :> EmptyDir)
    @@ (os_path_dirname(F) :> ((os_path_basename(F) :> src) @@ (os_path_basename(G) :> src)))
    @@ (os_path_dirname(H) :> (os_path_basename(H) :> src))

Init ==
    /\ system = "Linux"
    /\ cwd \in CwdChoices
    /\ FILE_SIZE_LIMIT \in SizeLimits
    /\ \E days \in RetentionDays : FILE_HISTORY_RETENTION = load_retention(days)
    /\ HISTORY_ON_CLOSE \in BOOLEAN
    /\ fs = IF cwd \in DOMAIN Base THEN Base ELSE makedirs(Base, cwd)
    /\ clock = 0
    /\ workers = [w \in Slots |-> Idle]
    /\ nev = 0
    /\ recs = [f \in Files |-> <<>>]
    /\ view = <<>>
    /\ browsed = <<>>
    /\ panel = Closed
    /\ shown = Nothing

settings == <<system, cwd, FILE_SIZE_LIMIT, FILE_HISTORY_RETENTION, HISTORY_ON_CLOSE>>


\* -------------------------------------------------------------------- clock
DayTicks == SECONDS_PER_DAY * TicksPerSec

\* the clock is sampled at the instants 0 .. MaxTick of the first day and at
\* the same offset MaxTick of each later day: ticks within the day, then
\* whole days
Tick ==
    /\ clock < MaxTick
    /\ clock' = clock + 1
    /\ UNCHANGED <<settings, fs, workers, nev, recs, view, browsed, panel, shown>>

DayPass ==
    /\ clock % DayTicks = MaxTick
    /\ clock \div DayTicks < MaxDays
    /\ clock' = clock + DayTicks
    /\ UNCHANGED <<settings, fs, workers, nev, recs, view, browsed, panel, shown>>

\* on_post_save that starts a thread whatever the flag says
SavedAlways(f, d) ==
    LET dir == os_path_dirname(f)
        name == os_path_basename(f)
        q == [g \in Files |-> IF g = f THEN recs[g] ELSE <<>>]
    IN  /\ \E w \in Slots : ~Running(w)
        /\ fs' = [fs EXCEPT ![dir] = Put(@, name, [data |-> d, mtime |-> clock])]
        /\ recs' = q
        /\ workers' = Spawn(f, q)

\* ------------------------------------------------------------ editor events
\* the editor writes data d to file f, then calls on_post_save: what the
\* save changes
Saved(f, d) ==
    LET dir == os_path_dirname(f)
        name == os_path_basename(f)
        q == [g \in Files |-> IF g = f THEN recs[g] ELSE <<>>]
    IN  /\ HISTORY_ON_CLOSE \/ \E w \in Slots : ~Running(w)
        /\ fs' = [fs EXCEPT ![dir] = Put(@, name, [data |-> d, mtime |-> clock])]
        /\ recs' = q
        /\ workers' = IF ~HISTORY_ON_CLOSE THEN Spawn(f, q) ELSE NoSpawn

\* a save by the user
on_post_save(f, d) ==
    /\ nev < MaxEvents
    /\ nev' = nev + 1
    /\ Saved(f, d)
    /\ UNCHANGED <<settings, clock, view, browsed, panel, shown>>

\* the editor closes the view of file f and calls on_close
on_close(f) ==
    LET q == [g \in Files |-> IF g = f THEN recs[g] ELSE <<>>]
    IN  /\ nev < MaxEvents
        /\ path_isfile(f)
        /\ ~HISTORY_ON_CLOSE \/ \E w \in Slots : ~Running(w)
        /\ nev' = nev + 1
        /\ recs' = q
        /\ workers' = IF HISTORY_ON_CLOSE THEN Spawn(f, q) ELSE NoSpawn
        /\ UNCHANGED <<settings, fs, clock, view, browsed, panel, shown>>

\* file f is deleted outside the plugin; a thread that is copying it keeps
\* reading the unlinked file
Unlink(f) ==
    /\ nev < MaxEvents
    /\ path_isfile(f)
    /\ nev' = nev + 1
    /\ fs' = [fs EXCEPT ![os_path_dirname(f)] = Del(@, os_path_basename(f))]
    /\ recs' = [g \in Files |-> <<>>]
    /\ workers' = [w \in Slots |->
          IF workers[w].pc = "copy" /\ workers[w].file_path = f /\ workers[w].held = Linked
          THEN [workers[w] EXCEPT !.held = FileAt(f).data, !.alone = FALSE]
          ELSE [workers[w] EXCEPT !.alone = FALSE]]
    /\ UNCHANGED <<settings, clock, view, browsed, panel, shown>>

\* ---------------------------------------------------------- process_history
file_name(w) == os_path_basename(workers[w].file_path)

history_dir(w) == get_file_dir(workers[w].file_path)

\* lines 73-79: the size check
P_getsize(w) ==
    LET f == workers[w].file_path IN
    /\ workers[w].pc = "getsize"
    /\ IF ~path_isfile(f) THEN Finish(w, "raised", FALSE)
       ELSE IF Len(FileAt(f).data) > FILE_SIZE_LIMIT THEN Finish(w, "returned", FALSE)
       ELSE Goto(w, "exists") /\ UNCHANGED recs
    /\ UNCHANGED <<settings, fs, clock, nev, view, browsed, panel, shown>>

\* lines 82-84: the test for the history directory
P_exists(w) ==
    /\ workers[w].pc = "exists"
    /\ Goto(w, IF exists(history_dir(w)) THEN "glob" ELSE "makedirs")
    /\ UNCHANGED <<settings, fs, clock, nev, recs, view, browsed, panel, shown>>

\* line 86: os.makedirs raises when another thread made the directory first
P_makedirs(w) ==
    /\ workers[w].pc = "makedirs"
    /\ IF exists(history_dir(w))
       THEN Finish(w, "raised", FALSE) /\ UNCHANGED fs
       ELSE /\ fs' = makedirs(fs, history_dir(w))
            /\ Goto(w, "glob")
            /\ UNCHANGED recs
    /\ UNCHANGED <<settings, clock, nev, view, browsed, panel, shown>>

\* line 89
P_glob(w) ==
    /\ workers[w].pc = "glob"
    /\ workers' = [workers EXCEPT ![w].globbed = glob(file_name(w)), ![w].pc = "sort"]
    /\ UNCHANGED <<settings, fs, clock, nev, recs, view, browsed, panel, shown>>

\* the orders sort(key=getmtime, reverse=True) can give a listing: newest
\* first, entries of equal mtime in the order glob returned them (any)
SortedByMtime(dir, names) ==
    LET n == Cardinality(names) IN
    {s \in [1..n -> names] :
        /\ \A i, j \in 1..n : i # j => s[i] # s[j]
        /\ \A i \in 1..(n - 1) : fs[dir][s[i]].mtime >= fs[dir][s[i + 1]].mtime}

\* line 90: getmtime of a listed name that is no entry of the history
\* directory raises; line 93: an empty listing goes straight to the copy
P_sort(w) ==
    /\ workers[w].pc = "sort"
    /\ IF \E n \in workers[w].globbed : ~isfile(history_dir(w), n)
       THEN Finish(w, "raised", FALSE)
       ELSE /\ \E order \in SortedByMtime(history_dir(w), workers[w].globbed) :
                  workers' = [workers EXCEPT ![w].history_files = order,
                                             ![w].globbed = {},
                                             ![w].pc = IF order = <<>> THEN "open" ELSE "cmp"]
            /\ UNCHANGED recs
    /\ UNCHANGED <<settings, fs, clock, nev, view, browsed, panel, shown>>

\* filecmp.cmp(f1, f2), shallow: equal signatures (size, mtime) count as
\* equal files; otherwise sizes, then contents, are compared
filecmp_cmp(a, b) ==
    IF Len(a.data) = Len(b.data) /\ a.mtime = b.mtime THEN TRUE
    ELSE IF Len(a.data) # Len(b.data) THEN FALSE
    ELSE a.data = b.data

\* lines 93-95
P_cmp(w) ==
    LET f == workers[w].file_path
        latest == workers[w].history_files[1]
    IN  /\ workers[w].pc = "cmp"
        /\ IF ~path_isfile(f) \/ ~isfile(history_dir(w), latest)
           THEN Finish(w, "raised", FALSE)
           ELSE IF filecmp_cmp(FileAt(f), fs[history_dir(w)][latest])
           THEN Finish(w, "returned", TRUE)
           ELSE Goto(w, "open") /\ UNCHANGED recs
        /\ UNCHANGED <<settings, fs, clock, nev, view, browsed, panel, shown>>

\* shutil.copyfile with a destination relative to the working directory
P_open_cwd(w) ==
    LET f == workers[w].file_path
        name == SnapshotName(clock, file_name(w))
    IN  /\ workers[w].pc = "open"
        /\ IF ~path_isfile(f) \/ ~exists(history_dir(w))
           THEN Finish(w, "raised", FALSE) /\ UNCHANGED fs
           ELSE /\ fs' = [fs EXCEPT ![cwd] =
                             Put(@, name, [data |-> <<>>, mtime |-> clock])]
                /\ workers' = [workers EXCEPT ![w].dst = name, ![w].off = 0,
                                              ![w].live = TRUE, ![w].held = Linked,
                                              ![w].pc = "copy"]
                /\ UNCHANGED recs
        /\ UNCHANGED <<settings, clock, nev, view, browsed, panel, shown>>

\* lines 98-100, shutil.copyfile up to its copy loop: the source is opened
\* for reading, the destination is created or truncated
P_open(w) ==
    LET f == workers[w].file_path
        name == SnapshotName(clock, file_name(w))
    IN  /\ workers[w].pc = "open"
        /\ IF ~path_isfile(f) \/ ~exists(history_dir(w))
           THEN Finish(w, "raised", FALSE) /\ UNCHANGED fs
           ELSE /\ fs' = [fs EXCEPT ![history_dir(w)] =
                             Put(@, name, [data |-> <<>>, mtime |-> clock])]
                /\ workers' = [workers EXCEPT ![w].dst = name, ![w].off = 0,
                                              ![w].live = TRUE, ![w].held = Linked,
                                              ![w].pc = "copy"]
                /\ UNCHANGED recs
        /\ UNCHANGED <<settings, clock, nev, view, browsed, panel, shown>>

\* fsrc.read(n) at offset off
Read(data, off, n) == Take(Drop(data, off), n)

\* fdst.write(buf) at offset off: a hole left by a truncation reads as zeros
WriteAt(data, off, buf) ==
    LET padded == IF Len(data) < off
                  THEN data \o [k \in 1..(off - Len(data)) |-> 0] ELSE data
    IN  Take(padded, off) \o buf \o Drop(padded, off + Len(buf))

\* one turn of the copy loop of shutil.copyfile: read a buffer, stop at end
\* of file, else write it; a destination unlinked meanwhile is written unseen
P_copy(w) ==
    LET f == workers[w].file_path
        src == IF workers[w].held = Linked THEN FileAt(f).data ELSE workers[w].held
        buf == Read(src, workers[w].off, COPY_BUFSIZE)
        dst == workers[w].dst
    IN  /\ workers[w].pc = "copy"
        /\ IF buf = <<>>
           THEN /\ workers' = [workers EXCEPT ![w].held = Linked, ![w].pc = "now"]
                /\ UNCHANGED fs
           ELSE /\ fs' = IF workers[w].live
                         THEN [fs EXCEPT ![history_dir(w)][dst] =
                                  [data |-> WriteAt(@.data, workers[w].off, buf),
                                   mtime |-> clock]]
                         ELSE fs
                /\ workers' = [workers EXCEPT ![w].off = @ + Len(buf)]
        /\ UNCHANGED <<settings, clock, nev, recs, view, browsed, panel, shown>>

\* line 103, and line 104 for an empty listing
P_now(w) ==
    /\ workers[w].pc = "now"
    /\ IF workers[w].history_files = <<>>
       THEN Finish(w, "returned", TRUE)
       ELSE /\ workers' = [workers EXCEPT ![w].now = clock, ![w].i = 1, ![w].pc = "sweep"]
            /\ UNCHANGED recs
    /\ UNCHANGED <<settings, fs, clock, nev, view, browsed, panel, shown>>

\* whether line 106 holds for a file of modification time mtime
Expired(mtime, now) == mtime < now - FILE_HISTORY_RETENTION * TicksPerSec

\* lines 104-107, one turn of the loop: getmtime raises for a missing file,
\* the subtraction raises for an unset retention
P_sweep(w) ==
    LET dir == history_dir(w)
        file == workers[w].history_files[workers[w].i]
        last == workers[w].i = Len(workers[w].history_files)
    IN  /\ workers[w].pc = "sweep"
        /\ IF ~isfile(dir, file) \/ FILE_HISTORY_RETENTION = None
           THEN Finish(w, "raised", FALSE) /\ UNCHANGED fs
           ELSE LET remove == Expired(fs[dir][file].mtime, workers[w].now)
                    ws == [v \in Slots |->
                             IF v = w
                             THEN [workers[w] EXCEPT !.i = @ + 1,
                                                     !.alone = @ /\ ~remove]
                             ELSE IF remove /\ workers[v].pc = "copy"
                                     /\ history_dir(v) = dir /\ workers[v].dst = file
                             THEN [workers[v] EXCEPT !.live = FALSE]
                             ELSE workers[v]]
                IN  /\ fs' = IF remove THEN [fs EXCEPT ![dir] = Del(@, file)] ELSE fs
                    /\ workers' = IF last THEN Ended(ws, w, "returned") ELSE ws
                    /\ recs' = IF remove THEN [g \in Files |-> <<>>]
                                ELSE IF last THEN RecsAfter(w, "returned", TRUE)
                                ELSE recs
        /\ UNCHANGED <<settings, clock, nev, view, browsed, panel, shown>>

\* --------------------------------------------------------------------- Next
Next ==
    \/ Tick
    \/ DayPass
    \/ \E f \in Files, d \in Data : on_post_save(f, d)
    \/ \E f \in Files : on_close(f)
    \/ \E f \in Files : Unlink(f)
    \/ \E w \in Slots : P_getsize(w)
    \/ \E w \in Slots : P_exists(w)
    \/ \E w \in Slots : P_makedirs(w)
    \/ \E w \in Slots : P_glob(w)
    \/ \E w \in Slots : P_sort(w)
    \/ \E w \in Slots : P_cmp(w)
    \/ \E w \in Slots : P_open(w)
    \/ \E w \in Slots : P_copy(w)
    \/ \E w \in Slots : P_now(w)
    \/ \E w \in Slots : P_sweep(w)

Spec == Init /\ [][Next]_vars


\* ------------------------------------------------------------- path mapping
\* A second specification for get_file_dir alone: the view's file name is
\* any absolute path of a few components, on each platform.
Systems == {"Linux", "Darwin", "Windows"}

\* the roots a file name can start with: "/", "//" and the history root
\* spelled with a doubled separator on POSIX, a drive and a network share on
\* Windows
PathRoots(sys) ==
    IF sys = "Windows"
    THEN {<<"C", ":", "\\">>, <<"\\", "\\", "s", "\\", "h", "\\">>}
    ELSE {<<"/">>, <<"/", "/">>, <<"/">> \o HISTORY_ROOT \o <<"/">>}

DirNames == {"a", "b"}

BaseNames == {<<"f">>, <<"g">>}

\* the directory components c[1], c[2], ..., each followed by a separator
Components(c, sep) == [i \in 1..(2 * Len(c)) |-> IF i % 2 = 1 THEN c[(i + 1) \div 2] ELSE sep]

AbsPaths(sys) ==
    {root \o Components(c, IF sys = "Windows" THEN "\\" ELSE "/") \o base :
        root \in PathRoots(sys),
        c \in UNION {[1..n -> DirNames] : n \in 0..MaxDepth},
        base \in BaseNames}

PathInit ==
    /\ system \in Systems
    /\ view \in AbsPaths(system)
    /\ browsed = <<>>
    /\ cwd = <<"/">>
    /\ FILE_SIZE_LIMIT \in SizeLimits
    /\ FILE_HISTORY_RETENTION = None
    /\ HISTORY_ON_CLOSE = FALSE
    /\ fs = EmptyDir
    /\ clock = 0
    /\ workers = [w \in Slots |-> Idle]
    /\ nev = 0
    /\ recs = [f \in Files |-> <<>>]
    /\ panel = Closed
    /\ shown = Nothing

\* HistoryBrowse.run: on the three platforms it knows, the file manager is
\* started on get_file_dir(view.file_name())
HistoryBrowse ==
    /\ system \in {"Darwin", "Linux", "Windows"}
    /\ browsed' = get_file_dir(view)
    /\ UNCHANGED <<settings, fs, clock, workers, nev, recs, view, panel, shown>>

PathNext == HistoryBrowse

PathSpec == PathInit /\ [][PathNext]_vars


\* --------------------------------------------------------- history commands
\* no record thread runs
NoneRunning == \A w \in Slots : ~Running(w)

NO_HISTORY_MSG == "No local history found"
NO_INCREMENTAL_DIFF == "No incremental diff found"

\* bytes of a line end
CR == 13
LF == 10

\* f.read() / f.readlines() of a file opened in text mode with universal
\* newlines: "\r\n" and "\r" are read as "\n"
TextRead(data) ==
    LET kept == {i \in 1..Len(data) : ~(data[i] = LF /\ i > 1 /\ data[i - 1] = CR)}
        pos(k) == CHOOSE i \in kept : Cardinality({j \in kept : j < i}) = k - 1
    IN  [k \in 1..Cardinality(kept) |-> IF data[pos(k)] = CR THEN LF ELSE data[pos(k)]]

\* f.read() as the interpreter does it: Python 2 on POSIX reads the bytes as
\* they are, Python 3 translates the line ends
FileRead(data, py2) == IF py2 THEN data ELSE TextRead(data)

\* the line end the editor writes for each "\n" of a buffer
LineEndings == {"Unix", "Windows", "CR"}

Ending(le) ==
    IF le = "Windows" THEN <<CR, LF>> ELSE IF le = "CR" THEN <<CR>> ELSE <<LF>>

\* the bytes the save command writes for a buffer
RECURSIVE SaveBytes(_, _)
SaveBytes(buffer, le) ==
    IF buffer = <<>> THEN <<>>
    ELSE (IF buffer[1] = LF THEN Ending(le) ELSE <<buffer[1]>>)
         \o SaveBytes(Tail(buffer), le)

\* file contents the editor writes in a session with history commands
UiData == {<<1>>, <<LF>>}

\* the sort key of the listing can be computed: every name glob found in the
\* working directory is an entry of the history directory
CanList(f) == \A n \in glob(os_path_basename(f)) : isfile(get_file_dir(f), n)

\* glob.glob("*" + file_name) sorted by getmtime in the history directory,
\* reverse=True: the lists the two lines can give
Listings(f) == SortedByMtime(get_file_dir(f), glob(os_path_basename(f)))

\* selections show_quick_panel can hand to on_done
Selections == (0 - 1)..(Len(panel.history_files) - 1)

Selected(index) == os_path_join(get_file_dir(panel.file), panel.history_files[index + 1])

Status(msg, f) == Shown("status", msg, <<>>, f, <<>>, <<>>)

Raised(from_file, to_file) == Shown("raised", "", from_file, to_file, <<>>, <<>>)

\* the run method of a command with a menu, started while no record thread
\* runs, up to show_quick_panel: cmd is
\* the command, skip the number of leading entries it drops, least the
\* shortest list it shows, msg its message for a shorter one
Menu(cmd, f, skip, least, msg) ==
    /\ panel = Closed
    /\ NoneRunning
    /\ path_isfile(f)
    /\ IF ~CanList(f)
       THEN panel' = Closed /\ shown' = Raised(<<>>, f)
       ELSE \E listing \in Listings(f) :
               LET history_files == Drop(listing, skip) IN
               IF Len(history_files) < least
               THEN panel' = Closed /\ shown' = Status(msg, f)
               ELSE /\ panel' = [cmd |-> cmd, file |-> f, history_files |-> history_files]
                    /\ shown' = Nothing
    /\ UNCHANGED <<settings, fs, clock, workers, nev, recs, view, browsed>>

\* view.run_command("save") in a command: the editor writes the buffer as
\* the bytes d and calls on_post_save
CommandSave(f, d) ==
    /\ nev < MaxEvents + MaxCommandSaves
    /\ nev' = nev + 1
    /\ Saved(f, d)

\* ShowDiff.run: both files are read as text, the diff goes to a new view
ShowDiff(from_file, to_file, to_data) ==
    IF ~path_isfile(from_file) THEN Raised(from_file, to_file)
    ELSE Shown("diff", "", from_file, to_file,
               TextRead(FileAt(from_file).data), TextRead(to_data))

\* lines 124-134 and 144
HistoryOpen_run(f) == Menu("open", f, 0, 1, NO_HISTORY_MSG)

\* lines 136-142
HistoryOpen_on_done(index) ==
    /\ panel.cmd = "open"
    /\ panel' = Closed
    /\ shown' = IF index = 0 - 1 THEN Nothing
                ELSE Shown("open", "", <<>>, Selected(index), <<>>, <<>>)
    /\ UNCHANGED <<settings, fs, clock, workers, nev, recs, view, browsed>>

\* lines 149-162 and 178
HistoryCompare_run(f) == Menu("compare", f, 1, 1, NO_HISTORY_MSG)

\* lines 164-176: a dirty view, its buffer saving as the bytes d, is saved
\* first
HistoryCompare_on_done(index, dirty, d) ==
    /\ panel.cmd = "compare"
    /\ panel' = Closed
    /\ IF index = 0 - 1
       THEN shown' = Nothing /\ UNCHANGED <<fs, workers, nev, recs>>
       ELSE /\ IF dirty THEN CommandSave(panel.file, d)
               ELSE path_isfile(panel.file) /\ UNCHANGED <<fs, workers, nev, recs>>
            /\ shown' = ShowDiff(Selected(index), panel.file,
                                 IF dirty THEN d ELSE FileAt(panel.file).data)
    /\ UNCHANGED <<settings, clock, view, browsed>>

\* lines 183-196 and 212
HistoryReplace_run(f) == Menu("replace", f, 1, 1, NO_HISTORY_MSG)

\* lines 198-210: the snapshot is read as text, put in place of the whole
\* buffer, and the view is saved with its line endings le
HistoryReplace_on_done(index, le, py2) ==
    /\ panel.cmd = "replace"
    /\ panel' = Closed
    /\ IF index = 0 - 1
       THEN shown' = Nothing /\ UNCHANGED <<fs, workers, nev, recs>>
       ELSE IF ~path_isfile(Selected(index))
       THEN shown' = Raised(Selected(index), panel.file)
            /\ UNCHANGED <<fs, workers, nev, recs>>
       ELSE LET data == FileRead(FileAt(Selected(index)).data, py2)
                bytes == SaveBytes(data, le)
            IN  /\ CommandSave(panel.file, bytes)
                /\ shown' = Shown("replaced", "", Selected(index), panel.file,
                                  FileAt(Selected(index)).data, bytes)
    /\ UNCHANGED <<settings, clock, view, browsed>>

\* IncrementalDiff that puts up its menu for a single entry
HistoryIncrementalDiff_run_one(f) == Menu("incdiff", f, 0, 1, NO_INCREMENTAL_DIFF)

\* lines 217-227 and 244
HistoryIncrementalDiff_run(f) == Menu("incdiff", f, 0, 2, NO_INCREMENTAL_DIFF)

\* lines 229-242
HistoryIncrementalDiff_on_done(index) ==
    /\ panel.cmd = "incdiff"
    /\ panel' = Closed
    /\ shown' = IF index = 0 - 1 THEN Nothing
                ELSE IF index = Len(panel.history_files) - 1
                THEN Status(NO_INCREMENTAL_DIFF, panel.file)
                ELSE IF ~path_isfile(Selected(index))
                THEN Raised(Selected(index + 1), Selected(index))
                ELSE ShowDiff(Selected(index + 1), Selected(index),
                              FileAt(Selected(index)).data)
    /\ UNCHANGED <<settings, fs, clock, workers, nev, recs, view, browsed>>

\* a session with history commands: the editor saves and closes files, and
\* the user starts a command, while no record thread runs
UiRetentionDays == {1}

UiInit ==
    /\ Init
    /\ \E days \in UiRetentionDays : FILE_HISTORY_RETENTION = load_retention(days)

UiSave(f, d) == NoneRunning /\ on_post_save(f, d)

UiClose(f) == NoneRunning /\ on_close(f)

UiNext ==
    \/ Tick
    \/ DayPass
    \/ \E f \in Files, d \in UiData : UiSave(f, d)
    \/ \E f \in Files : UiClose(f)
    \/ \E w \in Slots : P_getsize(w)
    \/ \E w \in Slots : P_exists(w)
    \/ \E w \in Slots : P_makedirs(w)
    \/ \E w \in Slots : P_glob(w)
    \/ \E w \in Slots : P_sort(w)
    \/ \E w \in Slots : P_cmp(w)
    \/ \E w \in Slots : P_open(w)
    \/ \E w \in Slots : P_copy(w)
    \/ \E w \in Slots : P_now(w)
    \/ \E w \in Slots : P_sweep(w)
    \/ \E f \in Files : HistoryOpen_run(f)
    \/ \E index \in Selections : HistoryOpen_on_done(index)
    \/ \E f \in Files : HistoryCompare_run(f)
    \/ \E index \in Selections, dirty \in BOOLEAN, d \in UiData :
          HistoryCompare_on_done(index, dirty, d)
    \/ \E f \in Files : HistoryReplace_run(f)
    \/ \E index \in Selections, le \in LineEndings, py2 \in BOOLEAN :
          HistoryReplace_on_done(index, le, py2)
    \/ \E f \in Files : HistoryIncrementalDiff_run(f)
    \/ \E index \in Selections : HistoryIncrementalDiff_on_done(index)

UiSpec == UiInit /\ [][UiNext]_vars

\* ------------------------------------------------------------------- claims
\* the thread of slot w takes the step
Stepped(w) ==
    \/ workers'[w].pc # workers[w].pc
    \/ workers'[w].off # workers[w].off
    \/ workers'[w].i # workers[w].i

\* some thread is writing entry n of directory dir
BeingWritten(dir, n) ==
    \E w \in Slots : /\ workers[w].pc = "copy"
                     /\ history_dir(w) = dir
                     /\ workers[w].dst = n

PathSeps == IF system = "Windows" THEN NtSeps ELSE {"/"}

\* path p is directory root or lies below it
Inside(p, root) ==
    /\ StartsWith(p, root)
    /\ Len(p) > Len(root) => p[Len(root) + 1] \in PathSeps

\* path p lies below directory root
StrictlyInside(p, root) ==
    /\ Inside(p, root)
    /\ \E i \in (Len(root) + 2)..Len(p) : p[i] \notin PathSeps

\* C1: when two or more record calls on a file within the size limit ran one
\* after another, each alone, starting from an empty history and all seeing
\* the same content, exactly one snapshot of the file exists afterwards.
C1_Idempotent ==
    \A f \in Files :
        (/\ NoneRunning
         /\ Len(recs[f]) >= 2
         /\ \A i \in 1..Len(recs[f]) : recs[f][i] = recs[f][1])
        => Cardinality(SnapshotsOf(f)) = 1

\* C2: at most one record thread of a source path is between its history
\* listing and the end of its write and sweep.
InPipeline(w) == workers[w].pc \in {"sort", "cmp", "open", "copy", "now", "sweep"}

C2_Serialized ==
    \A v, w \in Slots :
        (v # w /\ InPipeline(v) /\ InPipeline(w))
        => workers[v].file_path # workers[w].file_path

\* C3: in every state every snapshot file in a mirrored directory holds the
\* complete content of a state of a source file (one of the contents the
\* editor writes), never a part of one.
C3_Atomic ==
    \A f \in Files :
        \A n \in SnapshotsOf(f) : fs[get_file_dir(f)][n].data \in Data

\* C4: when a record call that decided to write opens its destination, every
\* finished snapshot of the file whose content differs from the source
\* content is still retrievable from the history afterwards.
C4_NoOverwrite ==
    [][\A w \in Slots :
          (workers[w].pc = "open" /\ workers'[w].pc = "copy") =>
              \A n \in SnapshotsOf(workers[w].file_path) :
                  (/\ ~BeingWritten(history_dir(w), n)
                   /\ fs[history_dir(w)][n].data \in Data
                   /\ fs[history_dir(w)][n].data # FileAt(workers[w].file_path).data)
                  => \E m \in DOMAIN fs'[history_dir(w)] :
                        /\ IsSnapshotOf(m, workers[w].file_path)
                        /\ fs'[history_dir(w)][m].data = fs[history_dir(w)][n].data]_vars

\* C5: with the retention window zero or unset no step deletes an entry of a
\* mirrored directory, and no sweep ends in an error.
C5_RetentionOff ==
    [][(FILE_HISTORY_RETENTION = None \/ FILE_HISTORY_RETENTION = 0) =>
          /\ \A f \in Files :
                \A n \in listdir(get_file_dir(f)) : n \in DOMAIN fs'[get_file_dir(f)]
          /\ \A w \in Slots : workers[w].pc = "sweep" => workers'[w].pc # "raised"]_vars

\* C6: with a non-zero window w, a sweep step of a record call at time now
\* deletes only files with now - t > w, and when the sweep of a call that
\* ran alone has ended no file with now - t > w, other than the snapshot the
\* call has just written, is left in the swept mirrored directory.
C6_Retention ==
    [][\A w \in Slots :
          (/\ FILE_HISTORY_RETENTION # None
           /\ FILE_HISTORY_RETENTION # 0
           /\ workers[w].pc \in {"now", "sweep"}
           /\ Stepped(w)) =>
              LET dir == history_dir(w)
                  now == IF workers[w].pc = "now" THEN clock ELSE workers[w].now
                  window == FILE_HISTORY_RETENTION * TicksPerSec
              IN  /\ \A n \in DOMAIN fs[dir] :
                        n \notin DOMAIN fs'[dir] => now - fs[dir][n].mtime > window
                  /\ (workers[w].alone /\ workers'[w].pc = "returned") =>
                        \A n \in DOMAIN fs'[dir] \ {workers[w].dst} :
                            now - fs'[dir][n].mtime <= window]_vars

\* C7: a record call on a file larger than file_size_limit changes nothing
\* in the file system; a record call that runs alone on a file within the
\* limit ends with a snapshot of the file's content in its history.
C7_SizeLimit ==
    [][\A w \in Slots :
          /\ (/\ workers[w].pc = "getsize"
              /\ Stepped(w)
              /\ path_isfile(workers[w].file_path)
              /\ Len(FileAt(workers[w].file_path).data) > FILE_SIZE_LIMIT)
             => (fs' = fs /\ workers'[w].pc = "returned")
          /\ (/\ Running(w)
              /\ workers[w].pc # "getsize"
              /\ workers[w].alone
              /\ workers'[w].pc \in {"returned", "raised"})
             => \E n \in DOMAIN fs'[history_dir(w)] :
                   /\ IsSnapshotOf(n, workers[w].file_path)
                   /\ fs'[history_dir(w)][n].data = FileAt(workers[w].file_path).data]_vars

\* C8: after record calls on a file that ran one after another from an empty
\* history, each seeing a content distinct from the one before and none
\* deleting, the history holds one snapshot per call, and listed newest
\* first (strictly, by modification time) they are the calls' contents in
\* reverse call order.
C8_Ordering ==
    \A f \in Files :
        (/\ NoneRunning
         /\ recs[f] # <<>>
         /\ \A i \in 1..(Len(recs[f]) - 1) : recs[f][i] # recs[f][i + 1])
        => /\ Cardinality(SnapshotsOf(f)) = Len(recs[f])
           /\ \A order \in SortedByMtime(get_file_dir(f), SnapshotsOf(f)) :
                 /\ \A i \in 1..Len(order) :
                       fs[get_file_dir(f)][order[i]].data = recs[f][Len(order) + 1 - i]
                 /\ \A i \in 1..(Len(order) - 1) :
                       fs[get_file_dir(f)][order[i]].mtime
                          > fs[get_file_dir(f)][order[i + 1]].mtime

\* C9: the listing a record call takes is the set of entries of the file's
\* mirrored directory whose name ends with the file's base name, whatever
\* the current working directory is.
C9_Listing ==
    [][\A w \in Slots :
          (workers[w].pc = "glob" /\ workers'[w].pc = "sort") =>
              workers'[w].globbed =
                  {n \in listdir(history_dir(w)) : EndsWith(n, file_name(w))}]_vars

\* C10: the directory the path mapping returns for an absolute source path
\* is HistoryRoot or lies below it, and a snapshot written into it lies
\* below HistoryRoot.
C10_Contained ==
    browsed # <<>> =>
        /\ Inside(browsed, HISTORY_ROOT)
        /\ StrictlyInside(os_path_join(browsed, SnapshotName(clock, os_path_basename(view))),
                          HISTORY_ROOT)


\* two paths name files of the same volume: the same drive or share on
\* Windows, always on POSIX
SameVolume(p, q) ==
    system = "Windows" => nt_splitdrive(p)[1] = nt_splitdrive(q)[1]

\* C11: the mirrored directory of a file depends only on the history root
\* and the file's directory, and two files in different absolute directories
\* of the same volume have different mirrored directories.
C11_Injective ==
    browsed # <<>> =>
        /\ browsed = get_file_dir(view)
        /\ \A p \in AbsPaths(system) :
              /\ os_path_dirname(p) = os_path_dirname(view) => get_file_dir(p) = browsed
              /\ (SameVolume(p, view) /\ os_path_dirname(p) # os_path_dirname(view))
                    => get_file_dir(p) # browsed


\* the thread of slot w is started in this step
Starts(w) == ~Running(w) /\ workers'[w].pc = "getsize"

\* C14: with history_on_close false a save event starts exactly one record
\* thread, for the saved file, and a close event starts none; with it true
\* a close event starts exactly one and a save event none; no step starts
\* two threads.
C14_Trigger ==
    [][/\ Cardinality({w \in Slots : Starts(w)}) <= 1
       /\ \A f \in Files :
             /\ (\E d \in Data : on_post_save(f, d)) =>
                   /\ Cardinality({w \in Slots : Starts(w)})
                         = IF HISTORY_ON_CLOSE THEN 0 ELSE 1
                   /\ \A w \in Slots : Starts(w) => workers'[w].file_path = f
             /\ on_close(f) =>
                   /\ Cardinality({w \in Slots : Starts(w)})
                         = IF HISTORY_ON_CLOSE THEN 1 ELSE 0
                   /\ \A w \in Slots : Starts(w) => workers'[w].file_path = f]_vars

\* a close event has started a thread while a thread started by an earlier
\* close event is still running
C14_Witness ==
    /\ HISTORY_ON_CLOSE
    /\ nev = 2
    /\ \E v, w \in Slots : v # w /\ workers[v].pc = "getsize" /\ Running(w)

\* C15: a record call that passed the size check returns only after its
\* sweep, also when it skips the write; so with a non-zero window, when a
\* call that ran alone returns, no snapshot of the file older than the
\* window, other than the one the call has just written, is left.
C15_SweepAlways ==
    [][\A w \in Slots :
          (/\ Running(w)
           /\ workers[w].pc # "getsize"
           /\ workers'[w].pc = "returned") =>
              /\ workers[w].pc \in {"now", "sweep"}
              /\ (/\ workers[w].alone
                  /\ FILE_HISTORY_RETENTION # None
                  /\ FILE_HISTORY_RETENTION # 0) =>
                    \A n \in DOMAIN fs'[history_dir(w)] \ {workers[w].dst} :
                        IsSnapshotOf(n, workers[w].file_path)
                        => ~Expired(fs'[history_dir(w)][n].mtime, clock)]_vars

C17_Isolation ==
    [][\A w \in Slots :
          /\ (workers[w].pc = "sort" /\ workers'[w].pc = "cmp") =>
                IsSnapshotOf(workers'[w].history_files[1], workers[w].file_path)
          /\ (workers[w].pc = "sweep" /\ Stepped(w)) =>
                \A n \in DOMAIN fs[history_dir(w)] :
                    n \notin DOMAIN fs'[history_dir(w)]
                    => IsSnapshotOf(n, workers[w].file_path)]_vars

\* C19: the snapshot a record call that runs alone has written is not
\* deleted by the call's own sweep and holds the source content when the
\* call returns, for every retention setting.
C19_Survives ==
    [][\A w \in Slots :
          (/\ workers[w].pc \in {"now", "sweep"}
           /\ workers[w].alone
           /\ Stepped(w)) =>
              /\ workers[w].dst \in DOMAIN fs'[history_dir(w)]
              /\ workers'[w].pc = "returned" =>
                    fs'[history_dir(w)][workers[w].dst].data
                        = FileAt(workers[w].file_path).data]_vars


\* C12: IncrementalDiff puts up its menu exactly when the newest-first list
\* has two or more entries and signals "no incremental diff" otherwise; for
\* a selection i before the last it hands show_diff the entry after i (the
\* older) as from_file and the entry i as to_file, and the diff shown is of
\* these two; for the last entry it signals "no incremental diff" and shows
\* no diff; a cancelled selection does nothing.
C12_Pairing ==
    [][/\ \A f \in Files :
             (HistoryIncrementalDiff_run(f) /\ CanList(f)) =>
                 IF Cardinality(glob(os_path_basename(f))) < 2
                 THEN panel' = Closed /\ shown' = Status(NO_INCREMENTAL_DIFF, f)
                 ELSE /\ panel'.cmd = "incdiff"
                      /\ panel'.file = f
                      /\ panel'.history_files \in Listings(f)
                      /\ shown'.kind = "none"
       /\ \A index \in Selections :
             HistoryIncrementalDiff_on_done(index) =>
                 LET n == Len(panel.history_files)
                     older == os_path_join(get_file_dir(panel.file),
                                           panel.history_files[index + 2])
                     newer == os_path_join(get_file_dir(panel.file),
                                           panel.history_files[index + 1])
                 IN  /\ n >= 2
                     /\ fs' = fs
                     /\ index = 0 - 1 => shown'.kind = "none"
                     /\ index = n - 1 =>
                           shown' = Status(NO_INCREMENTAL_DIFF, panel.file)
                     /\ (0 <= index /\ index < n - 1) =>
                           /\ shown'.kind \in {"diff", "raised"}
                           /\ shown'.from_file = older
                           /\ shown'.to_file = newer
                           /\ (path_isfile(older) /\ path_isfile(newer)) =>
                                 /\ shown'.kind = "diff"
                                 /\ shown'.from_data = TextRead(FileAt(older).data)
                                 /\ shown'.to_data = TextRead(FileAt(newer).data)]_vars

\* an incremental diff is shown of two snapshots of F taken on different
\* days, the newer as to_file
C12_Witness ==
    /\ shown.kind = "diff"
    /\ os_path_dirname(shown.to_file) = get_file_dir(F)
    /\ IsSnapshotOf(os_path_basename(shown.to_file), F)
    /\ IsSnapshotOf(os_path_basename(shown.from_file), F)
    /\ shown.from_file # shown.to_file

\* C13: when Replace has restored a snapshot X of the file into the live
\* file, the file's content on disk is byte for byte the content of X, and
\* the step changes no snapshot.
C13_RoundTrip ==
    [][\A index \in Selections, le \in LineEndings, py2 \in BOOLEAN :
          (/\ HistoryReplace_on_done(index, le, py2)
           /\ shown'.kind = "replaced"
           /\ IsSnapshotOf(os_path_basename(Selected(index)), panel.file)) =>
              /\ fs'[os_path_dirname(panel.file)][os_path_basename(panel.file)].data
                    = FileAt(Selected(index)).data
              /\ \A f \in Files : \A n \in SnapshotsOf(f) :
                    /\ n \in DOMAIN fs'[get_file_dir(f)]
                    /\ fs'[get_file_dir(f)][n] = fs[get_file_dir(f)][n]]_vars

\* C18: when Compare or Replace lists the history of a file while no record
\* thread runs, the newest snapshot of that file in the list has the content
\* of the file on disk.
C18_NewestIsLive ==
    [][\A f \in Files :
          ((HistoryCompare_run(f) \/ HistoryReplace_run(f)) /\ CanList(f)) =>
              \A listing \in Listings(f) :
                  LET own == SelectSeq(listing, LAMBDA n : IsSnapshotOf(n, f))
                  IN  own # <<>> =>
                         fs[get_file_dir(f)][own[1]].data = FileAt(f).data]_vars

====
